---- MODULE Spec2Model ----
(***************************************************************************)
(* V8CoverageCollector (src/src/index.ts): the session lifecycle           *)
(* connect / resetCoverage / collectCoverage / disconnect over one         *)
(* inspector session, and the reduction of a coverage snapshot to a        *)
(* CoverageResult {testKey, coveredFiles}.                                 *)
(*                                                                         *)
(* Strings are sequences of one-character strings, so that URL parsing,    *)
(* the substring test of the filter, percent-decoding and path             *)
(* relativisation are computed and not assumed.                            *)
(***************************************************************************)
EXTENDS Naturals, Sequences, FiniteSets, TLC

VARIABLES
  processCwd, \* process.cwd(), which path.relative reads for relative arguments
  args,       \* the arguments of a collectCoverage call under study
  snap,       \* the snapshot handed to its then-callback
  out,        \* what the callback produced
  prev,       \* what the previous application produced
  connected,  \* the inspector session's connection is open
  enabled,    \* collaborator: profiling subsystem enabled
  started,    \* collaborator: continuous coverage started
  executed,   \* collaborator: scripts executed since the last snapshot
  queue,      \* requests posted and not yet answered, in order
  calls,      \* the calls on the collector that have not settled yet
  done,       \* the call that settled last
  hist,       \* history: which call took the last snapshot, what ran since
  selfUrl     \* the script URL of the collector module itself

(***************************************************************************)
(* Characters and generic string helpers                                   *)
(***************************************************************************)
LowerSeq == <<"a","b","c","d","e","f","g","h","i","j","k","l","m",
              "n","o","p","q","r","s","t","u","v","w","x","y","z">>
UpperSeq == <<"A","B","C","D","E","F","G","H","I","J","K","L","M",
              "N","O","P","Q","R","S","T","U","V","W","X","Y","Z">>
Digits == {"0","1","2","3","4","5","6","7","8","9"}

Range(s) == { s[i] : i \in 1..Len(s) }

IsAlpha(c) == c \in Range(LowerSeq) \cup Range(UpperSeq)

ToLower(c) ==
  IF c \in Range(UpperSeq)
    THEN LowerSeq[CHOOSE i \in 1..Len(UpperSeq) : UpperSeq[i] = c]
    ELSE c

LowerStr(s) == [i \in 1..Len(s) |-> ToLower(s[i])]

StartsWith(s, p) == Len(s) >= Len(p) /\ SubSeq(s, 1, Len(p)) = p

\* String.prototype.includes
Includes(s, sub) ==
  \E i \in 1..(Len(s) + 1) :
    i + Len(sub) - 1 <= Len(s) /\ SubSeq(s, i, i + Len(sub) - 1) = sub

\* Index of the first character of s that is in set cs, or Len(s)+1
FirstOf(s, cs) ==
  IF \E i \in 1..Len(s) : s[i] \in cs
    THEN CHOOSE i \in 1..Len(s) : s[i] \in cs /\ \A j \in 1..(i-1) : s[j] \notin cs
    ELSE Len(s) + 1

Drop(s, n) == SubSeq(s, n + 1, Len(s))
Take(s, n) == SubSeq(s, 1, n)

\* String.prototype.split on one separator character
RECURSIVE Split(_, _)
Split(s, sep) ==
  LET k == FirstOf(s, {sep})
  IN IF k > Len(s) THEN <<s>>
     ELSE <<Take(s, k - 1)>> \o Split(Drop(s, k), sep)

\* Array.prototype.join
RECURSIVE Join(_, _)
Join(segs, sep) ==
  IF Len(segs) = 0 THEN <<>>
  ELSE IF Len(segs) = 1 THEN segs[1]
  ELSE segs[1] \o sep \o Join(Tail(segs), sep)

RECURSIVE SelectNonEmpty(_)
SelectNonEmpty(segs) ==
  IF Len(segs) = 0 THEN <<>>
  ELSE IF segs[1] = <<>> THEN SelectNonEmpty(Tail(segs))
  ELSE <<segs[1]>> \o SelectNonEmpty(Tail(segs))

(***************************************************************************)
(* node:path (POSIX): resolve and relative                                 *)
(***************************************************************************)
SLASH == <<"/">>
DOTDOT == <<".", ".">>

\* normalizeString(path, allowAboveRoot = false): "." and empty segments are
\* skipped, ".." removes the segment before it (and is dropped at the root)
RECURSIVE NormalizeSegs(_, _)
NormalizeSegs(segs, acc) ==
  IF Len(segs) = 0 THEN acc
  ELSE LET h == segs[1]
       IN IF h = <<>> \/ h = <<".">> THEN NormalizeSegs(Tail(segs), acc)
          ELSE IF h = DOTDOT
            THEN NormalizeSegs(Tail(segs),
                   IF Len(acc) = 0 THEN acc ELSE Take(acc, Len(acc) - 1))
          ELSE NormalizeSegs(Tail(segs), Append(acc, h))

\* path.resolve(p) with process.cwd() = cwd, as the segments of the absolute path
ResolveSegs(cwd, p) ==
  IF StartsWith(p, SLASH)
    THEN NormalizeSegs(Split(p, "/"), <<>>)
    ELSE NormalizeSegs(Split(cwd \o SLASH \o p, "/"), <<>>)

Resolve(cwd, p) == SLASH \o Join(ResolveSegs(cwd, p), SLASH)

RECURSIVE CommonPrefixLen(_, _)
CommonPrefixLen(a, b) ==
  IF Len(a) = 0 \/ Len(b) = 0 \/ a[1] # b[1] THEN 0
  ELSE 1 + CommonPrefixLen(Tail(a), Tail(b))

\* the relative path from segments f to segments t that share k leading segments
RelSegs(f, t, k) ==
  Join([i \in 1..(Len(f) - k) |-> DOTDOT] \o Drop(t, k), SLASH)

RelResolved(f, t) == RelSegs(f, t, CommonPrefixLen(f, t))

\* path.relative(from, to) with process.cwd() = cwd
relative(cwd, from, to) == RelResolved(ResolveSegs(cwd, from), ResolveSegs(cwd, to))

(***************************************************************************)
(* WHATWG URL: URL.canParse / new URL, for the parts the filter reads      *)
(* (protocol, hostname, pathname)                                          *)
(***************************************************************************)
SchemeChars == Range(LowerSeq) \cup Range(UpperSeq) \cup Digits \cup {"+", "-", "."}
SpecialSchemes ==
  { <<"h","t","t","p">>, <<"h","t","t","p","s">>, <<"f","t","p">>,
    <<"w","s">>, <<"w","s","s">>, <<"f","i","l","e">> }
FileScheme == <<"f","i","l","e">>
LocalHost == <<"l","o","c","a","l","h","o","s","t">>
ForbiddenHostChars == {" ", "<", ">", "^", "|", "[", "]"}
HexChars == Digits \cup {"a","b","c","d","e","f","A","B","C","D","E","F"}

\* the path percent-encode set, restricted to the characters of the inputs
PathEncode(c) ==
  IF c = " " THEN <<"%","2","0">>
  ELSE IF c = "<" THEN <<"%","3","C">>
  ELSE IF c = ">" THEN <<"%","3","E">>
  ELSE <<c>>

RECURSIVE EncodeSeg(_)
EncodeSeg(s) ==
  IF Len(s) = 0 THEN <<>> ELSE PathEncode(s[1]) \o EncodeSeg(Tail(s))

IsSingleDot(b) == LowerStr(b) \in { <<".">>, <<"%","2","e">> }
IsDoubleDot(b) ==
  LowerStr(b) \in { <<".",".">>, <<".","%","2","e">>, <<"%","2","e",".">>,
                    <<"%","2","e","%","2","e">> }

\* the path state of the URL parser over the "/"-separated buffers
RECURSIVE PathState(_, _)
PathState(bufs, path) ==
  IF Len(bufs) = 0 THEN path
  ELSE LET b == bufs[1]
           last == Len(bufs) = 1
       IN IF IsDoubleDot(b)
            THEN LET popped == IF Len(path) = 0 THEN path ELSE Take(path, Len(path) - 1)
                 IN PathState(Tail(bufs), IF last THEN Append(popped, <<>>) ELSE popped)
          ELSE IF IsSingleDot(b)
            THEN PathState(Tail(bufs), IF last THEN Append(path, <<>>) ELSE path)
          ELSE PathState(Tail(bufs), Append(path, EncodeSeg(b)))

BackslashToSlash(s) == [i \in 1..Len(s) |-> IF s[i] = "\\" THEN "/" ELSE s[i]]

RECURSIVE SkipSlashes(_)
SkipSlashes(s) ==
  IF Len(s) > 0 /\ s[1] = "/" THEN SkipSlashes(Tail(s)) ELSE s

ParseFailure == [ok |-> FALSE, protocol |-> <<>>, hostname |-> <<>>, pathname |-> <<>>]

\* pathname of a special-scheme URL from the text after the host
SpecialPathname(pathpart) ==
  SLASH \o Join(PathState(Split(IF StartsWith(pathpart, SLASH) THEN Tail(pathpart)
                                 ELSE pathpart, "/"), <<>>), SLASH)

\* host parsing and the path that follows it; file URLs may have no host
HostAndPath(scheme, hostbuf, pathpart, emptyHostOk) ==
  IF \/ \E i \in 1..Len(hostbuf) : hostbuf[i] \in ForbiddenHostChars
     \/ (hostbuf = <<>> /\ ~emptyHostOk)
    THEN ParseFailure
    ELSE [ok |-> TRUE, protocol |-> scheme \o <<":">>,
          hostname |-> IF scheme = FileScheme /\ LowerStr(hostbuf) = LocalHost
                         THEN <<>> ELSE LowerStr(hostbuf),
          pathname |-> SpecialPathname(pathpart)]

\* authority: the host runs to the next "/"
ParseAuthority(scheme, afterSl, emptyHostOk) ==
  HostAndPath(scheme, Take(afterSl, FirstOf(afterSl, {"/"}) - 1),
              Drop(afterSl, FirstOf(afterSl, {"/"}) - 1), emptyHostOk)

\* file state, file slash state, file host state
ParseFile(rest) ==
  IF StartsWith(rest, <<"/","/">>)
    THEN ParseAuthority(FileScheme, Drop(rest, 2), TRUE)
    ELSE HostAndPath(FileScheme, <<>>, rest, TRUE)

\* the states after the scheme, on the text up to the query or fragment
ParseAfterScheme(scheme, rest) ==
  IF scheme = FileScheme THEN ParseFile(BackslashToSlash(rest))
  ELSE IF scheme \in SpecialSchemes
    THEN ParseAuthority(scheme, SkipSlashes(BackslashToSlash(rest)), FALSE)
  ELSE [ok |-> TRUE, protocol |-> scheme \o <<":">>, hostname |-> <<>>,
        pathname |-> rest]

HasScheme(s) ==
  /\ FirstOf(s, {":"}) <= Len(s)
  /\ FirstOf(s, {":"}) > 1
  /\ IsAlpha(s[1])
  /\ \A i \in 2..(FirstOf(s, {":"}) - 1) : s[i] \in SchemeChars

\* the text between the scheme's ":" and the first "?" or "#"
AfterScheme(s) ==
  Take(Drop(s, FirstOf(s, {":"})), FirstOf(Drop(s, FirstOf(s, {":"})), {"?", "#"}) - 1)

\* new URL(s) without a base; ok = URL.canParse(s)
ParseURL(s) ==
  IF ~HasScheme(s) THEN ParseFailure
  ELSE ParseAfterScheme(LowerStr(Take(s, FirstOf(s, {":"}) - 1)), AfterScheme(s))

(***************************************************************************)
(* node:url fileURLToPath (POSIX) and decodeURIComponent                   *)
(***************************************************************************)
\* the percent codes of the inputs; any other "%" sequence is malformed
PctTable ==
  [code \in { <<"5","F">>, <<"5","f">>, <<"2","0">>, <<"2","F">>, <<"2","f">>,
              <<"2","E">>, <<"2","e">>, <<"3","C">>, <<"3","E">> } |->
     IF code \in { <<"5","F">>, <<"5","f">> } THEN "_"
     ELSE IF code = <<"2","0">> THEN " "
     ELSE IF code \in { <<"2","F">>, <<"2","f">> } THEN "/"
     ELSE IF code \in { <<"2","E">>, <<"2","e">> } THEN "."
     ELSE IF code = <<"3","C">> THEN "<"
     ELSE ">"]

RECURSIVE PctWellFormed(_)
PctWellFormed(s) ==
  IF Len(s) = 0 THEN TRUE
  ELSE IF s[1] = "%"
    THEN Len(s) >= 3 /\ SubSeq(s, 2, 3) \in DOMAIN PctTable /\ PctWellFormed(Drop(s, 3))
  ELSE PctWellFormed(Tail(s))

RECURSIVE PctDecode(_)
PctDecode(s) ==
  IF Len(s) = 0 THEN <<>>
  ELSE IF s[1] = "%" THEN <<PctTable[SubSeq(s, 2, 3)]>> \o PctDecode(Drop(s, 3))
  ELSE <<s[1]>> \o PctDecode(Tail(s))

HasEncodedSlash(p) ==
  \E n \in 1..Len(p) :
    p[n] = "%" /\ n + 2 <= Len(p) /\ p[n+1] = "2" /\ p[n+2] \in {"f", "F"}

\* getPathFromURLPosix(url), after the protocol check of fileURLToPath
PathFromURL(url) ==
  IF ~url.ok THEN [kind |-> "throw", err |-> "ERR_INVALID_URL", path |-> <<>>]
  ELSE IF url.protocol # FileScheme \o <<":">>
    THEN [kind |-> "throw", err |-> "ERR_INVALID_URL_SCHEME", path |-> <<>>]
  ELSE IF url.hostname # <<>>
    THEN [kind |-> "throw", err |-> "ERR_INVALID_FILE_URL_HOST", path |-> <<>>]
  ELSE IF HasEncodedSlash(url.pathname)
    THEN [kind |-> "throw", err |-> "ERR_INVALID_FILE_URL_PATH", path |-> <<>>]
  ELSE IF ~PctWellFormed(url.pathname)
    THEN [kind |-> "throw", err |-> "URIError", path |-> <<>>]
  ELSE [kind |-> "ok", err |-> "", path |-> PctDecode(url.pathname)]

\* fileURLToPath(s): [kind |-> "ok", path] or [kind |-> "throw", err]
fileURLToPath(s) == PathFromURL(ParseURL(s))

(***************************************************************************)
(* The reduction of a snapshot: testKey, coveredFiles, the then-callback   *)
(* of collectCoverage                                                      *)
(***************************************************************************)
NODE_MODULES == <<"n","o","d","e","_","m","o","d","u","l","e","s">>

\* url && url.protocol === 'file:' && !url.pathname.includes('node_modules')
KeepParsed(url) ==
  /\ url.ok
  /\ url.protocol = FileScheme \o <<":">>
  /\ ~Includes(url.pathname, NODE_MODULES)

\* the predicate of .filter(...): url = URL.canParse(s) && new URL(s)
KeepUrl(s) == KeepParsed(ParseURL(s))

RECURSIVE FilterKept(_)
FilterKept(urls) ==
  IF Len(urls) = 0 THEN <<>>
  ELSE IF KeepUrl(urls[1]) THEN <<urls[1]>> \o FilterKept(Tail(urls))
  ELSE FilterKept(Tail(urls))

\* .map(url => relative(wd, fileURLToPath(url))) over the converted paths: an
\* exception of fileURLToPath leaves the map, the first one in order
MapRelative(cwd, wd, paths) ==
  IF \E i \in 1..Len(paths) : paths[i].kind = "throw"
    THEN [kind |-> "throw",
          err |-> paths[CHOOSE i \in 1..Len(paths) :
                          /\ paths[i].kind = "throw"
                          /\ \A j \in 1..(i - 1) : paths[j].kind # "throw"].err,
          files |-> <<>>]
    ELSE [kind |-> "ok", err |-> "",
          files |-> [i \in 1..Len(paths) |-> relative(cwd, wd, paths[i].path)]]

PathsOf(kept) == [i \in 1..Len(kept) |-> fileURLToPath(kept[i])]

UrlsOf(result) == [i \in 1..Len(result) |-> result[i].url]

RECURSIVE Dedup(_, _)
Dedup(xs, acc) ==
  IF Len(xs) = 0 THEN acc
  ELSE IF xs[1] \in Range(acc) THEN Dedup(Tail(xs), acc)
  ELSE Dedup(Tail(xs), Append(acc, xs[1]))

DedupFiles(r) == [r EXCEPT !.files = Dedup(r.files, <<>>)]

\* mutant: the file list is deduplicated
coveredFilesDedup(cwd, wd, result) ==
  DedupFiles(MapRelative(cwd, wd, PathsOf(FilterKept(UrlsOf(result)))))

\* mutant: new URL(s) without URL.canParse(s), so that an unparseable url throws
coveredFilesStrictParse(cwd, wd, result) ==
  IF \E i \in 1..Len(result) : ~ParseURL(result[i].url).ok
    THEN [kind |-> "throw", err |-> "ERR_INVALID_URL", files |-> <<>>]
    ELSE MapRelative(cwd, wd, PathsOf(FilterKept(UrlsOf(result))))

\* result.map(s => s.url).filter(...).map(url => relative(wd, fileURLToPath(url)))
coveredFiles(cwd, wd, result) ==
  MapRelative(cwd, wd, PathsOf(FilterKept(UrlsOf(result))))

KeySep == <<":", ":">>
RunSuffix == <<"|", "r", "u", "n">>

\* mutant: the arguments of relative are swapped
testKeySwapped(cwd, wd, testFile, testName) ==
  relative(cwd, testFile, wd) \o KeySep \o testName \o RunSuffix

\* `${relative(wd, testFile)}::${testName}|run`
testKey(cwd, wd, testFile, testName) ==
  relative(cwd, wd, testFile) \o KeySep \o testName \o RunSuffix

\* { testKey: testKey, coveredFiles: ... }, or the exception of coveredFiles
CoverageResult(key, files) ==
  [kind |-> files.kind, err |-> files.err, testKey |-> key,
   coveredFiles |-> files.files]

\* the callback collectCoverage chains on takePreciseCoverage(): the
\* CoverageResult, or the exception that rejects the call
collectThen(cwd, wd, testFile, testName, result) ==
  CoverageResult(testKey(cwd, wd, testFile, testName), coveredFiles(cwd, wd, result))

(***************************************************************************)
(* Inputs                                                                  *)
(***************************************************************************)
MaxSnap == 2

F3 == <<"f","i","l","e",":","/","/","/">>
U_a       == F3 \o <<"r","/","a">>
U_tb      == F3 \o <<"r","/","t","/","b">>
U_out     == F3 \o <<"o","/","a">>
U_nm      == F3 \o <<"r","/">> \o NODE_MODULES \o <<"/","a">>
U_nmlong  == F3 \o <<"r","/">> \o NODE_MODULES \o <<"_","x","/","a">>
U_nmenc   == F3 \o <<"r","/","n","o","d","e","%","5","F","m","o","d","u","l","e","s","/","a">>
U_node    == <<"n","o","d","e",":","i","/","x">>
U_empty   == <<>>
U_plain   == <<"/","r","/","a">>
U_host    == <<"f","i","l","e",":","/","/","h","/","r","/","a">>
U_encsl   == F3 \o <<"r","/","a","%","2","F","b">>
U_query   == F3 \o <<"r","/","a","?","q">>
U_upper   == <<"F","I","L","E",":","/","/","/","r","/","a">>
U_local   == <<"f","i","l","e",":","/","/">> \o LocalHost \o <<"/","r","/","a">>
U_dots    == F3 \o <<"r","/","t","/",".",".","/","a">>
U_badpct  == F3 \o <<"r","/","a","%">>
U_http    == <<"h","t","t","p",":","/","/","h","/","r","/","a">>
U_wd      == F3 \o <<"r">>
U_space   == F3 \o <<"r","/","a"," ","b">>
U_badhost == <<"f","i","l","e",":","/","/","h"," ","h","/","a">>
\* the collector module in a checkout, and installed as a dependency
U_self    == F3 \o <<"r","/","s">>
U_selfdep == F3 \o <<"r","/">> \o NODE_MODULES \o <<"/","s">>

Catalogue ==
  { U_a, U_tb, U_out, U_nm, U_nmlong, U_nmenc, U_node, U_empty, U_plain, U_host,
    U_encsl, U_query, U_upper, U_local, U_dots, U_badpct, U_http, U_wd, U_space,
    U_badhost }

D_r  == <<"/","r">>
D_rt == <<"/","r","/","t">>
D_o  == <<"/","o">>
D_rel == <<"t">>

\* (process.processCwd(), workingDirectory) pairs for the snapshot reduction
DirPairs == { <<D_r, D_r>>, <<D_r, D_rt>>, <<D_o, D_r>>, <<D_r, D_rel>> }

T_rel == <<"f">>
T_abs == <<"/","r","/","t","/","f">>
T_up  == <<".",".","/","f">>
N_n   == <<"n">>
N_sep == <<"a",":",":","b">>

NoOut == [kind |-> "none"]

sessVars == <<connected, enabled, started, executed, queue, calls, done, hist,
              selfUrl>>
pureVars == <<processCwd, args, snap, out, prev>>
vars == <<processCwd, args, snap, out, prev, connected, enabled, started, executed,
          queue, calls, done, hist, selfUrl>>

NoCall == [op |-> "none"]
NoHist == [sinceSnap |-> <<>>, lastSnapOp |-> "none", reopened |-> FALSE]

\* a freshly constructed collector: the session is not connected
SessIdle ==
  /\ connected = FALSE /\ enabled = FALSE /\ started = FALSE
  /\ executed = <<>> /\ queue = <<>> /\ calls = {} /\ done = NoCall
  /\ hist = NoHist

(***************************************************************************)
(* SpecFiles: the then-callback applied to bounded snapshots               *)
(***************************************************************************)
InitFiles ==
  /\ \E p \in DirPairs :
       /\ processCwd = p[1]
       /\ args = [wd |-> p[2], testFile |-> T_rel, testName |-> N_n]
  /\ snap = <<>> /\ out = NoOut /\ prev = NoOut
  /\ SessIdle /\ selfUrl = U_self

\* one more record in the snapshot the collaborator returns
AddRecord(u) ==
  /\ out = NoOut
  /\ Len(snap) < MaxSnap
  /\ snap' = Append(snap, [scriptId |-> Len(snap) + 1, url |-> u])
  /\ UNCHANGED <<processCwd, args, out, prev>>
  /\ UNCHANGED sessVars

\* the callback runs on the snapshot the collaborator returned
ApplyThen ==
  /\ prev' = out
  /\ out' = [kind |-> "done",
             res  |-> collectThen(processCwd, args.wd, args.testFile, args.testName, snap),
             cwd  |-> processCwd,
             snap |-> snap]
  /\ UNCHANGED <<processCwd, args, snap>>
  /\ UNCHANGED sessVars

NextFiles ==
  \/ \E u \in Catalogue : AddRecord(u)
  \/ ApplyThen

SpecFiles == InitFiles /\ [][NextFiles]_vars

(***************************************************************************)
(* SpecKey: the callback under every argument triple, with the process's   *)
(* current directory changing between applications                         *)
(***************************************************************************)
WDs == { D_r, D_rt, D_rel }
CWDs == { D_r, D_o }
TestFiles == { T_rel, T_abs, T_up }
TestNames == { N_n, N_sep }

InitKey ==
  /\ processCwd \in CWDs
  /\ args \in [wd : WDs, testFile : TestFiles, testName : TestNames]
  /\ snap = <<>> /\ out = NoOut /\ prev = NoOut
  /\ SessIdle /\ selfUrl = U_self

\* process.chdir(d) by the embedding program
Chdir(d) ==
  /\ d # processCwd
  /\ processCwd' = d
  /\ UNCHANGED <<args, snap, out, prev>>
  /\ UNCHANGED sessVars

\* the next snapshot is one record longer
AddKeyRecord ==
  /\ Len(snap) < MaxSnap
  /\ snap' = Append(snap, [scriptId |-> Len(snap) + 1, url |-> U_a])
  /\ UNCHANGED <<processCwd, args, out, prev>>
  /\ UNCHANGED sessVars

NextKey ==
  \/ \E d \in CWDs : Chdir(d)
  \/ AddKeyRecord
  \/ ApplyThen

SpecKey == InitKey /\ [][NextKey]_vars

(***************************************************************************)
(* Properties of the snapshot reduction (SpecFiles, SpecKey)               *)
(***************************************************************************)
Applied == out.kind = "done"
Resolved == Applied /\ out.res.kind = "ok"

\* the filter as the specification words it: parses, scheme file, and no path
\* segment equal to node_modules
SegmentFilter(u) ==
  /\ ParseURL(u).ok
  /\ ParseURL(u).protocol = FileScheme \o <<":">>
  /\ NODE_MODULES \notin Range(Split(ParseURL(u).pathname, "/"))

\* C2 (as claimed): the records that reach coveredFiles are exactly those whose
\* url parses, has scheme file and has no path segment equal to node_modules,
\* so a segment that merely contains node_modules keeps its record
C2_IncludedIffNoNodeModulesSegment ==
  Resolved =>
    Len(out.res.coveredFiles) =
      Cardinality({ i \in 1..Len(out.snap) : SegmentFilter(out.snap[i].url) })

KeptIdx(s) == { i \in 1..Len(s) : KeepUrl(s[i].url) }
NthKept(s, j) ==
  CHOOSE i \in KeptIdx(s) : Cardinality({ k \in KeptIdx(s) : k <= i }) = j

IsUnder(p, dir) == Len(p) >= Len(dir) /\ SubSeq(p, 1, Len(dir)) = dir

\* entry, read from workingDirectory wd, leads to the file of url u; it starts
\* with ".." exactly when that file is outside wd
EntryIsPathOf(cwd, wd, entry, u) ==
  /\ NormalizeSegs(Split(entry, "/"), ResolveSegs(cwd, wd))
       = ResolveSegs(cwd, fileURLToPath(u).path)
  /\ IsUnder(ResolveSegs(cwd, fileURLToPath(u).path), ResolveSegs(cwd, wd))
       <=> Split(entry, "/")[1] # DOTDOT

\* C4: coveredFiles is the order-preserving image of the records that pass the
\* filter: one entry per surviving record, the j-th entry being the j-th
\* survivor's path relative to workingDirectory, duplicates kept, files outside
\* workingDirectory kept as "../" paths
C4_OrderPreservingImage ==
  Resolved =>
    /\ Len(out.res.coveredFiles) = Cardinality(KeptIdx(out.snap))
    /\ \A j \in 1..Len(out.res.coveredFiles) :
         EntryIsPathOf(out.cwd, args.wd, out.res.coveredFiles[j],
                       out.snap[NthKept(out.snap, j)].url)

\* C4 witness: two different records of one file outside workingDirectory give
\* two equal "../" entries
C4_Witness ==
  /\ Resolved
  /\ Len(out.res.coveredFiles) = 2
  /\ out.snap[1].url # out.snap[2].url
  /\ out.res.coveredFiles[1] = out.res.coveredFiles[2]
  /\ Split(out.res.coveredFiles[1], "/")[1] = DOTDOT

RemoveAt(s, i) == SubSeq(s, 1, i - 1) \o SubSeq(s, i + 1, Len(s))

\* C10: a record whose url does not parse is dropped without failing the call:
\* the outcome is the outcome for the same snapshot without that record, and a
\* snapshot of unparseable records alone resolves with no files
C10_UnparseableSkipped ==
  Applied =>
    /\ \A i \in 1..Len(out.snap) :
         ~ParseURL(out.snap[i].url).ok =>
           out.res = collectThen(out.cwd, args.wd, args.testFile, args.testName,
                                 RemoveAt(out.snap, i))
    /\ (\A i \in 1..Len(out.snap) : ~ParseURL(out.snap[i].url).ok)
         => (out.res.kind = "ok" /\ out.res.coveredFiles = <<>>)

\* C10 witness: an unparseable record next to a covered file, and the call resolved
C10_Witness ==
  /\ Resolved
  /\ Len(out.snap) = 2
  /\ ~ParseURL(out.snap[1].url).ok
  /\ Len(out.res.coveredFiles) = 1

KeyRel(key, name) == Take(key, Len(key) - Len(name) - Len(KeySep) - Len(RunSuffix))

\* the key is <rel>::<testName>|run
KeyShape ==
  /\ Len(out.res.testKey) >= Len(args.testName) + Len(KeySep) + Len(RunSuffix)
  /\ out.res.testKey =
       KeyRel(out.res.testKey, args.testName) \o KeySep \o args.testName \o RunSuffix

\* C3 (as amended): testKey is <rel>::<testName>|run where rel leads from
\* workingDirectory to testFilePath, both resolved against the process's current
\* directory when relative; it is the same for the same three arguments and the
\* same current directory, whatever the snapshot and the earlier calls
C3_TestKey ==
  Applied =>
    /\ KeyShape
    /\ NormalizeSegs(Split(KeyRel(out.res.testKey, args.testName), "/"),
                     ResolveSegs(out.cwd, args.wd))
         = ResolveSegs(out.cwd, args.testFile)
    /\ (prev.kind = "done" /\ prev.cwd = out.cwd)
         => prev.res.testKey = out.res.testKey

\* C3 witness: two applications with the same current directory and different
\* snapshots, the test file given relative
C3_Witness ==
  /\ Applied /\ prev.kind = "done"
  /\ prev.cwd = out.cwd /\ prev.snap # out.snap
  /\ args.testFile = T_up /\ args.testName = N_sep

\* C3 (as claimed): testKey has the shape above and depends on the three
\* arguments only
C3_TestKeyDependsOnArgumentsOnly ==
  (Applied /\ prev.kind = "done") =>
    (KeyShape /\ prev.res.testKey = out.res.testKey)

(***************************************************************************)
(* The session: V8CoverageCollector over one inspector session, and the    *)
(* collaborator (the Profiler domain) behind it                            *)
(***************************************************************************)
MaxPending == 2

M_enable  == "Profiler.enable"
M_disable == "Profiler.disable"
M_start   == "Profiler.startPreciseCoverage"
M_stop    == "Profiler.stopPreciseCoverage"
M_take    == "Profiler.takePreciseCoverage"

\* mutant: coverage is started before profiling is enabled
connectStepsSwapped == <<M_start, M_enable>>

\* connect: await this.enable(); await this.startPreciseCoverage()
connectSteps == <<M_enable, M_start>>

\* mutant: profiling is disabled before coverage is stopped
disconnectStepsSwapped == <<M_disable, M_stop>>

\* mutant: disconnect does not disable profiling
disconnectStepsStopOnly == <<M_stop>>

\* disconnect: await this.stopPreciseCoverage(); await this.disable()
disconnectSteps == <<M_stop, M_disable>>

\* mutant: resetCoverage takes no snapshot
resetStepsNone == <<>>

\* mutant: resetCoverage takes two snapshots
resetStepsTwice == <<M_take, M_take>>

\* resetCoverage: await this.takePreciseCoverage()
resetSteps == <<M_take>>

\* collectCoverage: this.takePreciseCoverage().then(...)
collectSteps == <<M_take>>

Steps(op) ==
  CASE op = "connect"         -> connectSteps
    [] op = "disconnect"      -> disconnectSteps
    [] op = "resetCoverage"   -> resetSteps
    [] op = "collectCoverage" -> collectSteps

NoParams == [given |-> FALSE, callCount |-> FALSE, detailed |-> FALSE]

\* mutant: coverage is started with per-function detail
startParamsDetailed == [given |-> TRUE, callCount |-> TRUE, detailed |-> TRUE]

\* { callCount: true, detailed: false }
startParams == [given |-> TRUE, callCount |-> TRUE, detailed |-> FALSE]

Params(m) == IF m = M_start THEN startParams ELSE NoParams

\* this.post(method, params): a request on the session; posted on a session
\* that is not connected it fails with ERR_INSPECTOR_NOT_CONNECTED
Request(id, m, conn) ==
  [call |-> id, method |-> m, params |-> Params(m),
   dead |-> IF conn THEN "" ELSE "ERR_INSPECTOR_NOT_CONNECTED"]

\* user scripts a test may execute, and working directories it may pass
SessScripts == { U_a, U_host }
SessWDs == { D_r, D_rt }

\* the urls a session's snapshots can hold, and the orders they can come in
SessUrls == SessScripts \cup { U_self, U_selfdep }
SessExecs ==
  { ex \in UNION { [1..n -> SessUrls] : n \in 0..Cardinality(SessUrls) } :
      \A i, j \in 1..Len(ex) : i # j => ex[i] # ex[j] }

AppendIfAbsent(xs, u) == IF u \in Range(xs) THEN xs ELSE Append(xs, u)

\* script u runs: the collaborator counts it while coverage is started
RanEngine(ex, st, u) == IF st THEN AppendIfAbsent(ex, u) ELSE ex
RanHist(h, u) ==
  IF h.lastSnapOp = "none" THEN h
  ELSE [h EXCEPT !.sinceSnap = AppendIfAbsent(@, u)]

\* the records of a snapshot, one per script executed since the last one
SnapshotOf(ex) == [i \in 1..Len(ex) |-> [scriptId |-> i, url |-> ex[i]]]

SnapshotOps == {"resetCoverage", "collectCoverage"}

\* history: a snapshot-taking call is pending among cs
OtherSnapshotCall(cs) == \E o \in cs : o.op \in SnapshotOps

IsSendEvent(ev) == ev[1] = "send"

\* the methods a call has posted, in order
SendsOf(tr) ==
  [i \in 1..Len(SelectSeq(tr, IsSendEvent)) |-> SelectSeq(tr, IsSendEvent)[i][2]]

\* history: what the connect() has posted that this disconnect() directly
\* follows, with no call in between and none pending
PriorSends(op) ==
  IF op = "disconnect" /\ calls = {} /\ done.op = "connect" /\ done.state = "resolved"
    THEN SendsOf(done.trace)
    ELSE <<>>

NewCall(id, op, wd) ==
  [id |-> id, op |-> op, wd |-> wd, step |-> 0, state |-> "pending", err |-> "",
   result |-> NoOut, trace |-> <<>>, openAtCall |-> connected, connAfter |-> FALSE,
   prevSnapOp |-> "none", win |-> <<>>, prior |-> PriorSends(op),
   overlap |-> op \in SnapshotOps /\ OtherSnapshotCall(calls)]

CanCall == Cardinality(calls) < MaxPending

\* an id no pending call uses, for the requests of a new call
FreeId == CHOOSE i \in 1..MaxPending : \A c \in calls : c.id # i

\* history: a reset that resolved is where the next collect's window starts
HistSettled(c, h) ==
  IF c.op = "resetCoverage" /\ c.state = "resolved"
    THEN [h EXCEPT !.sinceSnap = <<>>, !.lastSnapOp = c.op]
    ELSE h

\* history: whether the connection now open was opened by a connect() that
\* followed a completed disconnect(); a closed session has none
ConnHist(h, conn) == IF conn THEN h ELSE [h EXCEPT !.reopened = FALSE]

AfterCompletedDisconnect ==
  calls = {} /\ done.op = "disconnect" /\ done.state = "resolved"

OpenHist(c) ==
  IF c.op = "connect" THEN [hist EXCEPT !.reopened = AfterCompletedDisconnect]
  ELSE hist

\* the call settles: it leaves the pending calls and becomes the last settled one
SettleWith(c, others, h, conn, qs) ==
  /\ connected' = conn
  /\ queue' = qs
  /\ done' = [c EXCEPT !.connAfter = conn, !.id = 0, !.step = 0,
                       !.overlap = c.op \in SnapshotOps
                                     /\ (@ \/ OtherSnapshotCall(others))]
  /\ calls' = others
  /\ hist' = RanHist(ConnHist(HistSettled(c, h), conn), selfUrl)

\* mutant: a call on a session that is not connected is rejected locally,
\* without a request
BeginChecked(c, conn) ==
  /\ executed' = RanEngine(executed, started, selfUrl)
  /\ IF Len(Steps(c.op)) = 0 \/ ~conn
       THEN SettleWith([c EXCEPT !.state = IF conn THEN "resolved" ELSE "rejected",
                                 !.err = IF conn THEN "" ELSE "NotConnected"],
                       calls, hist, conn, queue)
       ELSE /\ connected' = conn
            /\ queue' = Append(queue, Request(c.id, Steps(c.op)[1], conn))
            /\ calls' = calls \cup
                 { [c EXCEPT !.step = 1,
                             !.trace = Append(@, <<"send", Steps(c.op)[1], enabled>>)] }
            /\ done' = done
            /\ hist' = RanHist(OpenHist(c), selfUrl)
  /\ UNCHANGED <<enabled, started, selfUrl>>
  /\ UNCHANGED pureVars

\* the synchronous part of a call: up to its first await
Begin(c, conn) ==
  /\ executed' = RanEngine(executed, started, selfUrl)
  /\ IF Len(Steps(c.op)) = 0
       THEN SettleWith([c EXCEPT !.state = "resolved"], calls, hist, conn, queue)
       ELSE /\ connected' = conn
            /\ queue' = Append(queue, Request(c.id, Steps(c.op)[1], conn))
            /\ calls' = calls \cup
                 { [c EXCEPT !.step = 1,
                             !.trace = Append(@, <<"send", Steps(c.op)[1], enabled>>)] }
            /\ done' = done
            /\ hist' = RanHist(OpenHist(c), selfUrl)
  /\ UNCHANGED <<enabled, started, selfUrl>>
  /\ UNCHANGED pureVars

\* connect(): this.session.connect() throws on a session that is connected
CallConnect ==
  /\ CanCall
  /\ IF connected
       THEN /\ executed' = RanEngine(executed, started, selfUrl)
            /\ SettleWith([NewCall(FreeId, "connect", <<>>) EXCEPT
                             !.state = "rejected",
                             !.err = "ERR_INSPECTOR_ALREADY_CONNECTED",
                             !.trace = <<<<"throw", "ERR_INSPECTOR_ALREADY_CONNECTED">>>>],
                          calls, hist, connected, queue)
            /\ UNCHANGED <<enabled, started, selfUrl>>
            /\ UNCHANGED pureVars
       ELSE Begin([NewCall(FreeId, "connect", <<>>) EXCEPT !.trace = <<<<"open">>>>],
                  TRUE)

\* disconnect()
CallDisconnect ==
  /\ CanCall
  /\ Begin(NewCall(FreeId, "disconnect", <<>>), connected)

\* resetCoverage()
CallReset ==
  /\ CanCall
  /\ Begin(NewCall(FreeId, "resetCoverage", <<>>), connected)

\* collectCoverage(wd, testFile, testName)
CallCollect(wd) ==
  /\ CanCall
  /\ Begin(NewCall(FreeId, "collectCoverage", wd), connected)

\* user code of the test executes script u
Exec(u) ==
  /\ executed' = RanEngine(executed, started, u)
  /\ hist' = RanHist(hist, u)
  /\ UNCHANGED <<connected, enabled, started, queue, calls, done, selfUrl>>
  /\ UNCHANGED pureVars

\* a request the collaborator turns down: nothing changes on its side
Refusal(e) ==
  [ok |-> FALSE, err |-> e, en |-> enabled, st |-> started, ex |-> executed,
   urls |-> <<>>, snapshot |-> <<>>, changed |-> FALSE, snapped |-> FALSE]

\* mutant: taking a snapshot leaves the counters as they are
TakeAnswerKeepsCounts ==
  [ok |-> TRUE, err |-> "", en |-> enabled, st |-> TRUE, ex |-> executed,
   urls |-> executed, snapshot |-> SnapshotOf(executed), changed |-> FALSE,
   snapped |-> TRUE]

\* Profiler.takePreciseCoverage while coverage is started: the records of the
\* scripts executed since the last snapshot, and the counters are reset
TakeAnswer ==
  [ok |-> TRUE, err |-> "", en |-> enabled, st |-> TRUE, ex |-> <<>>,
   urls |-> executed, snapshot |-> SnapshotOf(executed), changed |-> FALSE,
   snapped |-> TRUE]

\* the Profiler domain's answer to a request that reaches it
EngineAnswer(m) ==
  CASE m = M_enable ->
         [ok |-> TRUE, err |-> "", en |-> TRUE, st |-> started, ex |-> executed,
          urls |-> <<>>, snapshot |-> <<>>, changed |-> ~enabled, snapped |-> FALSE]
    [] m = M_disable ->
         [ok |-> TRUE, err |-> "", en |-> FALSE, st |-> FALSE, ex |-> <<>>,
          urls |-> <<>>, snapshot |-> <<>>, changed |-> enabled, snapped |-> FALSE]
    [] m = M_start ->
         IF enabled
           THEN [ok |-> TRUE, err |-> "", en |-> TRUE, st |-> TRUE,
                 ex |-> IF started THEN executed ELSE <<>>,
                 urls |-> <<>>, snapshot |-> <<>>, changed |-> ~started, snapped |-> FALSE]
           ELSE Refusal("Profiler is not enabled")
    [] m = M_stop ->
         IF enabled
           THEN [ok |-> TRUE, err |-> "", en |-> TRUE, st |-> FALSE, ex |-> <<>>,
                 urls |-> <<>>, snapshot |-> <<>>, changed |-> started, snapped |-> FALSE]
           ELSE Refusal("Profiler is not enabled")
    [] m = M_take ->
         IF started
           THEN TakeAnswer
           ELSE Refusal("Precise coverage has not been started")

\* the reply to request q: the session's own error for a request it never
\* sent or dropped at disconnect, a collaborator failure, or the domain's answer
Answer(q, fault) ==
  IF q.dead # "" THEN Refusal(q.dead)
  ELSE IF fault THEN Refusal("ProtocolError")
  ELSE EngineAnswer(q.method)

\* mutant: the reply goes to some pending call, whatever its request
CallOfAny(q) == CHOOSE c \in calls : TRUE

\* the callback registered with the request: the reply goes to the call that
\* posted it
CallOf(q) == CHOOSE c \in calls : c.id = q.call

\* history: what the snapshot of a collectCoverage call covers
AtSnapshot(c, a) ==
  IF a.snapped /\ c.op = "collectCoverage"
    THEN [c EXCEPT !.prevSnapOp = hist.lastSnapOp, !.win = hist.sinceSnap]
    ELSE c

\* history: a collect's snapshot starts a new window; a collaborator state
\* change ends the current one
HistAfter(c, a) ==
  IF a.snapped /\ c.op = "collectCoverage"
    THEN [hist EXCEPT !.sinceSnap = <<>>, !.lastSnapOp = c.op]
  ELSE IF a.changed THEN [NoHist EXCEPT !.reopened = hist.reopened]
  ELSE hist

\* mutant: disconnect() leaves the session connected
sessionDisconnectNoop == TRUE

\* this.session.disconnect(): whether the session is connected afterwards
sessionDisconnect == FALSE

\* mutant: session.disconnect() forgets the requests still waiting
KillSilently(qs) == <<>>

\* session.disconnect(): the requests still waiting fail with ERR_INSPECTOR_CLOSED
Kill(qs) ==
  [i \in 1..Len(qs) |->
     [qs[i] EXCEPT !.dead = IF @ = "" THEN "ERR_INSPECTOR_CLOSED" ELSE @]]

\* mutant: a rejected request is swallowed and the call resolves
OnRejectSwallow(c, m, e) ==
  [c EXCEPT !.state = "resolved", !.trace = Append(@, <<"err", m, e>>)]

\* an awaited request rejects: nothing catches it, the call rejects with it
OnReject(c, m, e) ==
  [c EXCEPT !.state = "rejected", !.err = e, !.trace = Append(@, <<"err", m, e>>)]

\* the then-callback of collectCoverage, tabulated for every working directory
\* and snapshot of the session (@@ makes the table explicit: every entry is
\* computed once)
ThenTable ==
  [cwd \in {D_r}, wd \in SessWDs, ex \in SessExecs |->
     collectThen(cwd, wd, T_rel, N_n, SnapshotOf(ex))] @@ <<>>

\* the then-callback of collectCoverage returned r, or threw
ThenResult(c, r) ==
  IF r.kind = "ok"
    THEN [c EXCEPT !.state = "resolved", !.result = r]
    ELSE [c EXCEPT !.state = "rejected", !.err = r.err,
                   !.trace = Append(@, <<"throw", r.err>>)]

Acked(c, m) == [c EXCEPT !.trace = Append(@, <<"ack", m>>)]

\* the code after the last await of call c, whose last request got answer a
Finish(q, c, a) ==
  CASE c.op = "connect" ->
         SettleWith([Acked(c, q.method) EXCEPT !.state = "resolved"],
                    calls \ {CallOf(q)}, HistAfter(c, a), connected, Tail(queue))
    [] c.op = "disconnect" ->
         SettleWith([Acked(c, q.method) EXCEPT !.state = "resolved",
                                               !.trace = Append(@, <<"close">>)],
                    calls \ {CallOf(q)}, HistAfter(c, a), sessionDisconnect,
                    Kill(Tail(queue)))
    [] c.op = "resetCoverage" ->
         SettleWith([Acked(c, q.method) EXCEPT !.state = "resolved"],
                    calls \ {CallOf(q)}, HistAfter(c, a), connected, Tail(queue))
    [] c.op = "collectCoverage" ->
         SettleWith(ThenResult(Acked(c, q.method),
                               ThenTable[processCwd, c.wd, a.urls]),
                    calls \ {CallOf(q)}, HistAfter(c, a), connected, Tail(queue))

\* the reply to request q reaches call c, which runs on to its next await
Deliver(q, c, a) ==
  /\ enabled' = a.en
  /\ started' = a.st
  /\ executed' = RanEngine(a.ex, a.st, selfUrl)
  /\ IF ~a.ok
       THEN SettleWith(OnReject(c, q.method, a.err), calls \ {CallOf(q)},
                       HistAfter(c, a), connected, Tail(queue))
     ELSE IF c.step < Len(Steps(c.op))
       THEN /\ connected' = connected
            /\ queue' = Append(Tail(queue),
                               Request(c.id, Steps(c.op)[c.step + 1], connected))
            /\ calls' = (calls \ {CallOf(q)}) \cup
                          { [Acked(c, q.method) EXCEPT
                               !.step = @ + 1,
                               !.trace = Append(@, <<"send", Steps(c.op)[c.step + 1], a.en>>)] }
            /\ done' = done
            /\ hist' = RanHist(HistAfter(c, a), selfUrl)
     ELSE Finish(q, c, a)

\* the collaborator answers the oldest request; fault: it fails the request
Reply(fault) ==
  /\ queue # <<>>
  /\ fault => Head(queue).dead = ""
  /\ Deliver(Head(queue),
             AtSnapshot(CallOf(Head(queue)), Answer(Head(queue), fault)),
             Answer(Head(queue), fault))
  /\ UNCHANGED selfUrl
  /\ UNCHANGED pureVars

Init ==
  /\ processCwd = D_r
  /\ args = [wd |-> D_r, testFile |-> T_rel, testName |-> N_n]
  /\ snap = <<>> /\ out = NoOut /\ prev = NoOut
  /\ SessIdle
  /\ selfUrl \in { U_self, U_selfdep }

Next ==
  \/ CallConnect
  \/ CallDisconnect
  \/ CallReset
  \/ \E wd \in SessWDs : CallCollect(wd)
  \/ \E u \in SessScripts : Exec(u)
  \/ \E fault \in BOOLEAN : Reply(fault)

Spec == Init /\ [][Next]_vars

(***************************************************************************)
(* Properties of the session (Spec)                                        *)
(***************************************************************************)
AllCalls == calls \cup (IF done.op = "none" THEN {} ELSE {done})

IsSend(ev, m) == ev[1] = "send" /\ ev[2] = m

CollectAfterReset ==
  /\ done.op = "collectCoverage"
  /\ done.state = "resolved"
  /\ done.prevSnapOp = "resetCoverage"

\* the result of the collect holds the scripts that ran since the reset, filtered
ReportsWindow ==
  done.result.coveredFiles =
    coveredFiles(processCwd, done.wd, SnapshotOf(done.win)).files

\* C1 (as amended): a collectCoverage that resolves after a resetCoverage reports
\* exactly the filter-passing scripts executed between the two snapshots,
\* nothing from before the reset; with no user code in between these are the
\* collector's own script, reported unless the filter drops it (it does when the
\* collector is installed under node_modules), so the list may be empty
C1_CollectAfterReset ==
  CollectAfterReset =>
    /\ ReportsWindow
    /\ selfUrl \in Range(done.win)
    /\ done.win = <<selfUrl>> =>
         (done.result.coveredFiles # <<>> <=> KeepUrl(selfUrl))

\* C1 witness: user code ran before and after the reset; the collect reports
\* the collector's script and the script run after the reset
C1_Witness ==
  /\ CollectAfterReset
  /\ done.win = <<U_self, U_a>>
  /\ done.wd = D_r
  /\ done.result.coveredFiles = << <<"s">>, <<"a">> >>

\* C1 (as claimed): the same, and the result is never empty
C1_CollectAfterResetNeverEmpty ==
  CollectAfterReset =>
    /\ ReportsWindow
    /\ done.result.coveredFiles # <<>>

\* C5: in connect() the connection is opened first, then enable is sent, and
\* start-coverage is sent only once enable is acknowledged, with profiling enabled
C5_ConnectOrder ==
  \A c \in AllCalls :
    c.op = "connect" =>
      /\ \A i \in 1..Len(c.trace) :
           /\ IsSend(c.trace[i], M_enable) => (i = 2 /\ c.trace[1] = <<"open">>)
           /\ IsSend(c.trace[i], M_start) =>
                /\ i = 4
                /\ c.trace[1] = <<"open">>
                /\ IsSend(c.trace[2], M_enable)
                /\ c.trace[3] = <<"ack", M_enable>>
                /\ c.trace[4][3] = TRUE
      /\ c.state = "resolved" =>
           c.trace = << <<"open">>, <<"send", M_enable, FALSE>>, <<"ack", M_enable>>,
                        <<"send", M_start, TRUE>>, <<"ack", M_start>> >>

\* C5 witness: a connect() that resolved
C5_Witness ==
  /\ done.op = "connect" /\ done.state = "resolved"
  /\ connected /\ enabled /\ started

\* C6: in disconnect() stop-coverage is sent first, disable only once stop is
\* acknowledged, and the connection is closed only once disable is acknowledged
C6_DisconnectOrder ==
  \A c \in AllCalls :
    /\ c.op # "disconnect" => \A i \in 1..Len(c.trace) : c.trace[i] # <<"close">>
    /\ c.op = "disconnect" =>
         /\ \A i \in 1..Len(c.trace) :
              /\ IsSend(c.trace[i], M_stop) => i = 1
              /\ IsSend(c.trace[i], M_disable) =>
                   (i = 3 /\ IsSend(c.trace[1], M_stop) /\ c.trace[2] = <<"ack", M_stop>>)
              /\ c.trace[i] = <<"close">> =>
                   /\ i = 5
                   /\ IsSend(c.trace[1], M_stop) /\ c.trace[2] = <<"ack", M_stop>>
                   /\ IsSend(c.trace[3], M_disable) /\ c.trace[4] = <<"ack", M_disable>>
         /\ c.state = "resolved" =>
              (Len(c.trace) = 5 /\ c.trace[5] = <<"close">> /\ ~c.connAfter)

\* C6 witness: a disconnect() of an open connection that resolved
C6_Witness ==
  /\ done.op = "disconnect" /\ done.state = "resolved" /\ done.openAtCall
  /\ ~connected /\ ~enabled /\ ~started

\* C7 (as claimed): with no call pending the session is Connected (open,
\* enabled, started) or Disconnected (closed, disabled, stopped)
C7_IdleIsConnectedOrDisconnected ==
  calls = {} =>
    \/ (connected /\ enabled /\ started)
    \/ (~connected /\ ~enabled /\ ~started)

\* C8 (as claimed): a disconnect() called on an open connection has closed it
\* by the time it settles
C8_DisconnectCloses ==
  (done.op = "disconnect" /\ done.openAtCall) => ~done.connAfter

\* C9: a rejected request rejects the call that sent it with that error, the
\* call sends nothing after it, and no call sends a request twice
C9_FailuresSurface ==
  \A c \in AllCalls :
    /\ \A i \in 1..Len(c.trace) :
         c.trace[i][1] = "err" =>
           /\ i = Len(c.trace)
           /\ c.state = "rejected"
           /\ c.err = c.trace[i][3]
           /\ IsSend(c.trace[i - 1], c.trace[i][2])
    /\ \A i, j \in 1..Len(c.trace) :
         (c.trace[i][1] = "send" /\ c.trace[j][1] = "send" /\ i # j)
           => c.trace[i][2] # c.trace[j][2]
    /\ c.state = "pending" => c.trace[Len(c.trace)][1] = "send"

\* C9 witness: connect() rejected with the collaborator's error for start-coverage
C9_Witness ==
  /\ done.op = "connect" /\ done.state = "rejected" /\ done.err = "ProtocolError"
  /\ done.trace[Len(done.trace)] = <<"err", M_start, "ProtocolError">>

SessionConnected == connected /\ enabled /\ started

\* C11: one collector goes through connect, resetCoverage, collectCoverage,
\* disconnect again and again: a connect() called after a completed disconnect()
\* opens the connection and sends enable, once resolved it has restored the
\* Connected state, and a collect after a reset on the reopened connection
\* reports the scripts run since that reset only
C11_CycleRepeats ==
  /\ [][(AfterCompletedDisconnect /\ CallConnect) =>
          /\ connected'
          /\ \E c \in calls' :
               /\ c.op = "connect"
               /\ c.trace = << <<"open">>, <<"send", M_enable, FALSE>> >>]_vars
  /\ []((hist.reopened /\ calls = {} /\ done.op = "connect" /\ done.state = "resolved")
          => SessionConnected)
  /\ []((hist.reopened /\ done.op = "connect" /\ ~done.openAtCall
            /\ done.state = "rejected")
          => done.err = "ProtocolError")
  /\ []((hist.reopened /\ CollectAfterReset) => ReportsWindow)

\* C11 witness: in a second cycle, a collect after a reset reports the script
\* run in this cycle
C11_Witness ==
  /\ hist.reopened /\ SessionConnected
  /\ CollectAfterReset
  /\ done.win = <<U_self, U_a>>
  /\ done.result.coveredFiles # <<>>

DisconnectAfterConnect == done.op = "disconnect" /\ done.prior # <<>>

\* C12: a disconnect() called right after connect() resolved, with nothing in
\* between, fails only if the collaborator fails one of its requests; when it
\* resolves the two calls have posted exactly enable, start, stop, disable in
\* that order and the session is Disconnected
C12_ConnectThenDisconnect ==
  DisconnectAfterConnect =>
    /\ done.state = "rejected" => done.err = "ProtocolError"
    /\ done.state = "resolved" =>
         /\ done.prior \o SendsOf(done.trace) = <<M_enable, M_start, M_stop, M_disable>>
         /\ ~done.connAfter
         /\ calls = {} => (~connected /\ ~enabled /\ ~started)

\* C12 witness: connect() then disconnect() both resolved, nothing pending
C12_Witness ==
  /\ DisconnectAfterConnect /\ done.state = "resolved"
  /\ calls = {} /\ ~connected

CollectAfterCollect ==
  /\ done.op = "collectCoverage"
  /\ done.state = "resolved"
  /\ done.prevSnapOp = "collectCoverage"

ReplyToReset ==
  /\ queue # <<>>
  /\ CallOf(Head(queue)).op = "resetCoverage"
  /\ \E fault \in BOOLEAN : Reply(fault)

\* a step in which the collaborator, counting before and after, forgets a script
CountersCleared ==
  started /\ started' /\ \E u \in Range(executed) : u \notin Range(executed')

ReplyToUnconnected ==
  /\ queue # <<>>
  /\ CallOf(Head(queue)).op \in SnapshotOps
  /\ ~CallOf(Head(queue)).openAtCall
  /\ \E fault \in BOOLEAN : Reply(fault)

\* C15: resetCoverage and collectCoverage called on a session that is not
\* connected still post their take-snapshot request, and settle only with what
\* comes back for it (here the session's ERR_INSPECTOR_NOT_CONNECTED); nothing
\* is rejected before the post, and neither the call nor its outcome changes
\* whether the session is open, enabled and started
C15_NoLocalPrecondition ==
  /\ [](\A c \in AllCalls :
          (c.op \in SnapshotOps /\ ~c.openAtCall) =>
            /\ Len(c.trace) >= 1
            /\ IsSend(c.trace[1], M_take)
            /\ c.state # "resolved"
            /\ c.state = "rejected" =>
                 /\ c.err = "ERR_INSPECTOR_NOT_CONNECTED"
                 /\ c.trace[2] = <<"err", M_take, "ERR_INSPECTOR_NOT_CONNECTED">>)
  /\ [][((~connected /\ (CallReset \/ \E wd \in SessWDs : CallCollect(wd)))
           \/ ReplyToUnconnected)
          => UNCHANGED <<connected, enabled, started>>]_vars

\* C15 witness: a collectCoverage called on a session that is not connected was
\* rejected with the session's error, and the session is still Disconnected
C15_Witness ==
  /\ done.op = "collectCoverage" /\ ~done.openAtCall
  /\ done.state = "rejected" /\ done.err = "ERR_INSPECTOR_NOT_CONNECTED"
  /\ calls = {} /\ ~connected /\ ~enabled /\ ~started

StartsSent(c) ==
  Cardinality({ i \in 1..Len(SendsOf(c.trace)) : SendsOf(c.trace)[i] = M_start })

EnableAcked(c) == \E i \in 1..Len(c.trace) : c.trace[i] = <<"ack", M_enable>>

\* every start-coverage request in flight carries callCount = true and
\* detailed = false and belongs to a connect() call
StartRequestsWellFormed ==
  \A i \in 1..Len(queue) :
    queue[i].method = M_start =>
      /\ queue[i].params = [given |-> TRUE, callCount |-> TRUE, detailed |-> FALSE]
      /\ CallOf(queue[i]).op = "connect"

\* C16 (as amended): every start-coverage request carries callCount = true and
\* detailed = false; only connect() posts one, at most once per call: exactly
\* once when its enable request is acknowledged, never when connect() throws
\* or its enable request is rejected
C16_StartRequest ==
  /\ StartRequestsWellFormed
  /\ \A c \in AllCalls :
       /\ c.op # "connect" => StartsSent(c) = 0
       /\ c.op = "connect" =>
            StartsSent(c) = IF EnableAcked(c) THEN 1 ELSE 0

\* C16 witness: the start-coverage request of a connect() is in flight
C16_Witness ==
  /\ queue # <<>>
  /\ Head(queue).method = M_start
  /\ Head(queue).params.callCount /\ ~Head(queue).params.detailed
  /\ StartsSent(CallOf(Head(queue))) = 1

\* C16 (as claimed): the same, with exactly one start-coverage request in every
\* connect() call
C16_StartOncePerConnect ==
  /\ StartRequestsWellFormed
  /\ \A c \in AllCalls :
       /\ c.op # "connect" => StartsSent(c) = 0
       /\ (c.op = "connect" /\ c.state # "pending") => StartsSent(c) = 1

(***************************************************************************)
(* SpecLive: the session with a collaborator that answers every request    *)
(***************************************************************************)
\* every request handed to the session is eventually answered: by the Profiler
\* domain (an ack or an error) or by the session itself
InitLive ==
  /\ processCwd = D_r
  /\ args = [wd |-> D_r, testFile |-> T_rel, testName |-> N_n]
  /\ snap = <<>> /\ out = NoOut /\ prev = NoOut
  /\ SessIdle
  /\ selfUrl = U_self

\* the caller's operations and the replies; what user code executes between
\* them has no part in whether a call settles
NextLive ==
  \/ CallConnect
  \/ CallDisconnect
  \/ CallReset
  \/ CallCollect(D_r)
  \/ \E fault \in BOOLEAN : Reply(fault)

SpecLive ==
  InitLive /\ [][NextLive]_vars /\ WF_vars(\E fault \in BOOLEAN : Reply(fault))

CallIds == 1..MaxPending

IsPending(id) == \E c \in calls : c.id = id

\* a step in which pending call c settles or moves on
Advances(c) == c \notin calls'

\* the step delivers the reply to the request call c is waiting for
RepliesTo(c) ==
  /\ queue # <<>>
  /\ Head(queue).call = c.id
  /\ \E fault \in BOOLEAN : Reply(fault)

\* C17: when every request is eventually answered every pending call eventually
\* settles; and a pending call moves on or settles only in the step that
\* delivers the reply to its own request, so without that reply it stays
\* pending for ever: no timeout, no cancellation
C17_SettlesIffReplied ==
  /\ \A id \in CallIds : IsPending(id) ~> ~IsPending(id)
  /\ [][\A c \in calls : Advances(c) => RepliesTo(c)]_vars

\* C17 witness: a call of each kind of wait is pending: a connect() waiting for
\* the reply to start-coverage
C17_Witness ==
  \E c \in calls :
    /\ c.op = "connect" /\ c.step = 2
    /\ queue # <<>> /\ Head(queue).call = c.id /\ Head(queue).method = M_start

OverlappedCollect ==
  /\ done.op = "collectCoverage" /\ done.state = "resolved"
  /\ done.overlap /\ done.prevSnapOp # "none"

\* C18: when snapshot-taking calls overlap, a call moves on only with the reply
\* to its own take-snapshot request; a collectCoverage that resolves then holds
\* the reduction of that reply's snapshot under its own workingDirectory, the
\* scripts reported are those run since the snapshot before it, and they leave
\* the counters in the same step, so that no other call reports them again
C18_OverlapCorrelated ==
  /\ [](OverlappedCollect =>
          /\ done.result.coveredFiles =
               coveredFiles(processCwd, done.wd, SnapshotOf(done.win)).files
          /\ done.result.testKey = testKey(processCwd, done.wd, T_rel, N_n))
  /\ [][\A c \in calls :
          (c.op \in SnapshotOps /\ OtherSnapshotCall(calls \ {c}) /\ Advances(c)) =>
            /\ queue # <<>>
            /\ Head(queue).call = c.id
            /\ Head(queue).method = M_take
            /\ (c.op = "collectCoverage" /\ done'.state = "resolved") =>
                 /\ done'.result =
                      collectThen(processCwd, c.wd, T_rel, N_n, SnapshotOf(executed))
                 /\ Range(executed') \subseteq {selfUrl}]_vars

\* C18 witness: of two overlapping collectCoverage calls with different working
\* directories the first has resolved, reporting the script run before it,
\* and the second is still waiting
C18_Witness ==
  /\ OverlappedCollect
  /\ done.win = <<U_self, U_a>>
  /\ done.result.coveredFiles # <<>>
  /\ \E c \in calls :
       c.op = "collectCoverage" /\ c.overlap /\ c.wd # done.wd

\* C19 (as claimed): a collectCoverage call is rejected only by the rejection
\* of its take-snapshot request; once that request is acknowledged the call
\* resolves, whatever urls the snapshot holds
C19_RejectsOnlyOnRequestFailure ==
  (done.op = "collectCoverage" /\ done.state = "rejected") =>
    /\ done.trace[Len(done.trace)][1] = "err"
    /\ done.trace[Len(done.trace)][2] = M_take

====
